---- MODULE Spec2Model ----
(***************************************************************************)
(* A model of the user_pinger bot (src/user_pinger.py): the polling loop   *)
(* of UserPinger.listen, the comment handler (trigger parsing, group-name  *)
(* validation, ping resolution) and the command handler with its command   *)
(* closures, over the two wiki pages that hold the group registry and the  *)
(* visibility flags.                                                       *)
(* The cache of handled comments (self.parsed) is modelled with its file   *)
(* parsed.pkl: load at construction, save in the handler of SIGTERM.       *)
(*                                                                         *)
(* Text is modelled as sequences of one-character strings, so that the     *)
(* string operations of the code (upper, lower, split, strip, replace) are *)
(* computed and not assumed.  A Python exception that leaves a handler is  *)
(* recorded in out.exc; one that leaves listen ends the process, because   *)
(* the service loop (src/service.py:23-24) has no handler.                 *)
(***************************************************************************)
EXTENDS Integers, Sequences, FiniteSets, TLC

VARIABLES
    wikiGroups,  \* wiki page userpinger/config/groups: section -> set of options
    wikiConfig,  \* wiki page userpinger/config: section -> set of options
    config,      \* self.config, the bot's copy of the config page
    parsed,      \* self.parsed, the deque of comment ids
    running,     \* the service loop is still calling listen
    pkl,         \* the file parsed.pkl
    op,          \* the operation handled last and its input
    out          \* what that operation did: exception, events, dispatch

vars == <<wikiGroups, wikiConfig, config, parsed, running, pkl, op, out>>

----------------------------------------------------------------------------
(* Python's string operations, on sequences of characters.                 *)

LowerLetters ==
    <<"a","b","c","d","e","f","g","h","i","j","k","l","m",
      "n","o","p","q","r","s","t","u","v","w","x","y","z">>

UpperLetters ==
    <<"A","B","C","D","E","F","G","H","I","J","K","L","M",
      "N","O","P","Q","R","S","T","U","V","W","X","Y","Z">>

Digits == {"0","1","2","3","4","5","6","7","8","9"}

Range(s) == { s[i] : i \in DOMAIN s }

\* the letters' other case, as tables
UpperOf ==
    [ c \in Range(LowerLetters) |->
        UpperLetters[CHOOSE i \in DOMAIN LowerLetters : LowerLetters[i] = c] ]

LowerOf ==
    [ c \in Range(UpperLetters) |->
        LowerLetters[CHOOSE i \in DOMAIN UpperLetters : UpperLetters[i] = c] ]

UpperChar(c) == IF c \in DOMAIN UpperOf THEN UpperOf[c] ELSE c

LowerChar(c) == IF c \in DOMAIN LowerOf THEN LowerOf[c] ELSE c

\* str.upper() and str.lower()
Upper(s) == [ i \in DOMAIN s |-> UpperChar(s[i]) ]
Lower(s) == [ i \in DOMAIN s |-> LowerChar(s[i]) ]

\* the whitespace of str.split() that the modelled texts use
Whitespace == {" "}

\* str.split(): the maximal runs of non-whitespace characters, in order
RECURSIVE SplitWsFrom(_, _, _)
SplitWsFrom(s, i, cur) ==
    IF i > Len(s)
    THEN IF cur = <<>> THEN <<>> ELSE <<cur>>
    ELSE IF s[i] \in Whitespace
         THEN IF cur = <<>>
              THEN SplitWsFrom(s, i + 1, <<>>)
              ELSE <<cur>> \o SplitWsFrom(s, i + 1, <<>>)
         ELSE SplitWsFrom(s, i + 1, Append(cur, s[i]))

SplitWs(s) == SplitWsFrom(s, 1, <<>>)

\* str.split(sep) for a one-character separator: empty pieces are kept
RECURSIVE SplitOnFrom(_, _, _, _)
SplitOnFrom(s, sep, i, cur) ==
    IF i > Len(s)
    THEN <<cur>>
    ELSE IF s[i] = sep
         THEN <<cur>> \o SplitOnFrom(s, sep, i + 1, <<>>)
         ELSE SplitOnFrom(s, sep, i + 1, Append(cur, s[i]))

SplitOn(s, sep) == SplitOnFrom(s, sep, 1, <<>>)

\* sep.join(parts)
RECURSIVE Join(_, _)
Join(parts, sep) ==
    IF parts = <<>> THEN <<>>
    ELSE IF Len(parts) = 1 THEN parts[1]
    ELSE parts[1] \o sep \o Join(Tail(parts), sep)

\* str.strip(chars): leading and trailing characters of the set removed
RECURSIVE LStrip(_, _)
LStrip(s, chars) ==
    IF s # <<>> /\ s[1] \in chars THEN LStrip(Tail(s), chars) ELSE s

RECURSIVE RStrip(_, _)
RStrip(s, chars) ==
    IF s # <<>> /\ s[Len(s)] \in chars
    THEN RStrip(SubSeq(s, 1, Len(s) - 1), chars)
    ELSE s

Strip(s, chars) == RStrip(LStrip(s, chars), chars)

\* body.replace(", ", "+").replace(",", "+")
RECURSIVE ReplaceCommaSpace(_)
ReplaceCommaSpace(s) ==
    IF s = <<>> THEN <<>>
    ELSE IF Len(s) >= 2 /\ s[1] = "," /\ s[2] = " "
         THEN <<"+">> \o ReplaceCommaSpace(SubSeq(s, 3, Len(s)))
         ELSE <<s[1]>> \o ReplaceCommaSpace(Tail(s))

ReplaceComma(s) == [ i \in DOMAIN s |-> IF s[i] = "," THEN "+" ELSE s[i] ]

----------------------------------------------------------------------------
(* Class constants of UserPinger.                                          *)

\* string.ascii_uppercase + string.digits + '-' + '+'
GROUP_ALLOWED_CHARS == Range(UpperLetters) \cup Digits \cup {"-", "+"}

\* string.punctuation without '-' and '+' (and without the grave accent, for
\* which the language has no string literal; no modelled text contains it)
GROUP_STRIP_PUNCT ==
    {"!", "\"", "#", "$", "%", "&", "'", "(", ")", "*", ",", ".", "/", ":",
     ";", "<", "=", ">", "?", "@", "[", "\\", "]", "^", "_", "{", "|",
     "}", "~"}

MAX_PINGS_PER_COMMENT == 3

----------------------------------------------------------------------------
(* _validate_group_name: (True, None), or (False, msg) where msg names the *)
(* group and GROUP_ALLOWED_CHARS.                                          *)

NoMsg == [group |-> <<>>, allowed |-> {}]

NoRet == [ok |-> TRUE, msg |-> NoMsg]

ValidateGroupNameDropsPlus(group_name) ==
    IF Range(group_name) \ (GROUP_ALLOWED_CHARS \ {"+"}) # {}
    THEN [ok |-> FALSE,
          msg |-> [group |-> group_name, allowed |-> GROUP_ALLOWED_CHARS]]
    ELSE [ok |-> TRUE, msg |-> NoMsg]

ValidateGroupName(group_name) ==
    IF Range(group_name) \ GROUP_ALLOWED_CHARS # {}
    THEN [ok |-> FALSE,
          msg |-> [group |-> group_name, allowed |-> GROUP_ALLOWED_CHARS]]
    ELSE [ok |-> TRUE, msg |-> NoMsg]

----------------------------------------------------------------------------
(* The texts the model draws its inputs from.                              *)

FO == <<"F", "O">>
BA == <<"B", "A">>
ZE == <<"Z", "E">>
GroupNames == {FO, BA}

AL == <<"a", "l">>
BO == <<"b", "o">>
MO == <<"m", "o">>
Authors == {AL, MO}

\* primary_subreddit.moderator(), the platform's moderator list
Moderators == {MO}

PING == <<"!", "P", "I", "N", "G">>

C_help == <<"h","e","l","p">>
C_addtogroup == <<"a","d","d","t","o","g","r","o","u","p">>
C_removefromgroup ==
    <<"r","e","m","o","v","e","f","r","o","m","g","r","o","u","p">>
C_unsubscribe == <<"u","n","s","u","b","s","c","r","i","b","e">>
C_list == <<"l","i","s","t">>
C_protectgroup == <<"p","r","o","t","e","c","t","g","r","o","u","p">>
C_unprotectgroup ==
    <<"u","n","p","r","o","t","e","c","t","g","r","o","u","p">>
C_makepublicgroup ==
    <<"m","a","k","e","p","u","b","l","i","c","g","r","o","u","p">>
C_makeprivategroup ==
    <<"m","a","k","e","p","r","i","v","a","t","e","g","r","o","u","p">>
C_creategroup == <<"c","r","e","a","t","e","g","r","o","u","p">>
C_deletegroup == <<"d","e","l","e","t","e","g","r","o","u","p">>
C_addusertogroup ==
    <<"a","d","d","u","s","e","r","t","o","g","r","o","u","p">>
C_removeuserfromgroup ==
    <<"r","e","m","o","v","e","u","s","e","r","f","r","o","m","g","r","o","u","p">>
C_bogus == <<"b","o","g","u","s">>

----------------------------------------------------------------------------
(* What an operation does to the outside: reads and writes of wiki pages,  *)
(* private messages, and marking a message read, in order.                 *)

Ev(ev, page, kind, who, arg) ==
    [ev |-> ev, page |-> page, kind |-> kind, who |-> who, arg |-> arg]

EvRead(page) == Ev("read", page, "", <<>>, <<>>)
EvWrite(page, kind, who, arg) == Ev("write", page, kind, who, arg)
EvPm(kind, who, arg) == Ev("pm", "", kind, who, arg)
EvMarkRead == Ev("mark_read", "", "", <<>>, <<>>)

\* A handler's working state: the two wiki pages, self.config, the events so
\* far and the exception that ended it ("none" while it runs).
NoPing == [called |-> FALSE, groups |-> <<>>]

NoClasses ==
    [invalid_groups |-> <<>>, nonmember_groups |-> <<>>,
     existant_groups |-> <<>>]

Ctx(g, wc, c, p) ==
    [g |-> g, wc |-> wc, c |-> c, parsed |-> p, log |-> <<>>, exc |-> "none",
     handler |-> <<>>, tokens |-> <<>>, ping |-> NoPing,
     classes |-> NoClasses, ret |-> NoRet]

Emit(st, e) == [st EXCEPT !.log = Append(@, e)]
Raise(st, exc) == [st EXCEPT !.exc = exc]

\* _get_wiki_page(["config"]) assigned to self.config
RefreshConfig(st) == [Emit(st, EvRead("config")) EXCEPT !.c = st.wc]

\* _get_wiki_page(["config", "groups"]): the events; the page read is st.g
ReadGroups(st) == Emit(st, EvRead("groups"))

\* _update_wiki_page(["config", "groups"], doc, reason)
WriteGroups(st, doc, kind, who, arg) ==
    [Emit(st, EvWrite("groups", kind, who, arg)) EXCEPT !.g = doc]

\* _update_wiki_page(["config"], self.config, reason)
WriteConfig(st, kind, arg) ==
    [Emit(st, EvWrite("config", kind, <<>>, arg)) EXCEPT !.wc = st.c]

\* A page configparser cannot read is one with an option line before its
\* first section header: in the model, a page with options under no name.
\* read_string then raises MissingSectionHeaderError, a ParsingError, which
\* _get_wiki_page logs and raises again (lines 120-122).
RegistryParses(doc) == <<>> \notin DOMAIN doc

ConfigParses(doc) == "" \notin DOMAIN doc

\* _send_pm, and _send_error_pm which prefixes the subject
SendPm(st, kind, who, arg) == Emit(st, EvPm(kind, who, arg))
SendErrorPm(st, kind, who, arg) == Emit(st, EvPm(kind, who, arg))

----------------------------------------------------------------------------
(* Queries on the registry and the flags.                                  *)

group_exists(request, groups) == Upper(request) \in DOMAIN groups

in_group(author, users) == Lower(author) \in { Lower(u) : u \in users }

public_group(group, cfg) == Lower(group) \in cfg["public"]

protected_group(group, cfg) == Lower(group) \in cfg["protected"]

is_moderator(author) == author \in Moderators

----------------------------------------------------------------------------
(* The command closures of run_command.  Each takes the command data, the  *)
(* author and the working state, and returns the working state it leaves.  *)

\* the sections of a page, as a list (the order of a page is not modelled)
RECURSIVE SeqOfSet(_)
SeqOfSet(S) ==
    IF S = {} THEN <<>>
    ELSE LET x == CHOOSE y \in S : TRUE IN <<x>> \o SeqOfSet(S \ {x})

\* the keys of the two dictionaries run_command builds
RunPublicCommands == <<C_addtogroup, C_unsubscribe>>

RunModCommands ==
    <<C_removefromgroup, C_list, C_help, C_protectgroup, C_unprotectgroup,
      C_makepublicgroup, C_makeprivategroup, C_creategroup, C_deletegroup,
      C_addusertogroup, C_removeuserfromgroup>>

help_command(mod, author, st) ==
    LET help_commands ==
            IF mod THEN RunPublicCommands \o RunModCommands
            ELSE RunPublicCommands
    IN  SendPm(st, "Userpinger Commands", author, help_commands)

\* the loop of lines 483-495: the groups that exist and pass the protected
\* test, upper-cased; the test is made on the whole body, not on the group
RECURSIVE AddValidGroups(_, _, _, _)
AddValidGroups(groups_to_add, body, groups, cfg) ==
    IF groups_to_add = <<>> THEN <<>>
    ELSE LET group == groups_to_add[1]
             rest == AddValidGroups(Tail(groups_to_add), body, groups, cfg)
         IN  IF group_exists(group, groups) = FALSE THEN rest
             ELSE IF protected_group(body, cfg) THEN rest
             ELSE <<Upper(group)>> \o rest

\* the loop of lines 496-501: one set and one page write per valid group
RECURSIVE AddAndWrite(_, _, _)
AddAndWrite(st, valid_groups, author) ==
    IF valid_groups = <<>> THEN st
    ELSE LET group == valid_groups[1]
             doc == [st.g EXCEPT ![group] = @ \cup {author}]
         IN  AddAndWrite(WriteGroups(st, doc, "Added", author, <<group>>),
                         Tail(valid_groups), author)

add_to_group(body, author, st) ==
    LET groups_to_add == SplitOn(ReplaceComma(ReplaceCommaSpace(body)), "+")
        st1 == ReadGroups(st)
        valid_groups == AddValidGroups(groups_to_add, body, st1.g, st1.c)
        st2 == AddAndWrite(st1, valid_groups, author)
    IN  \* lines 502-505 name valid_group, which is not defined: with one
        \* valid group line 503 raises, with more line 505 does
        IF valid_groups = <<>> THEN st2 ELSE Raise(st2, "NameError")

remove_from_group(body, author, st) ==
    LET groups_to_add == SplitOn(ReplaceComma(ReplaceCommaSpace(body)), "+")
        st1 == ReadGroups(st)
    IN  \* line 525 names list_of_all_groups, which this closure does not
        \* define; split never returns an empty list, so the loop is entered
        IF groups_to_add # <<>> THEN Raise(st1, "NameError") ELSE st1

\* lines 567-575: the sections named (or all, when none is named) that list
\* the author, compared in upper case
UnsubGroupsToRemove(unsub_groups, author, groups) ==
    SeqOfSet({ group_name \in DOMAIN groups :
                 /\ unsub_groups = <<>> \/ group_name \in Range(unsub_groups)
                 /\ \E username \in groups[group_name] :
                        Upper(author) = Upper(username) })

unsubscribe(data, author, st) ==
    LET unsub_groups == SplitWs(Upper(data))
        st1 == ReadGroups(st)
        groups_to_remove == UnsubGroupsToRemove(unsub_groups, author, st1.g)
    IN  remove_from_group(Join(groups_to_remove, <<"+">>), author, st1)

list_groups(author, st) ==
    LET st1 == ReadGroups(st)
    IN  SendPm(st1, "Avaliable Groups", author, SeqOfSet(DOMAIN st1.g))

protect_group(body, st) ==
    LET st1 == ReadGroups(st)
    IN  IF group_exists(body, st1.g) = FALSE THEN st1
        ELSE WriteConfig([st1 EXCEPT !.c["protected"] = @ \cup {body}],
                         "protected", <<body>>)

unprotect_group(body, st) ==
    LET st1 == ReadGroups(st)
    IN  IF group_exists(body, st1.g) = FALSE THEN st1
        ELSE WriteConfig([st1 EXCEPT !.c["protected"] = @ \ {body}],
                         "unprotected", <<body>>)

make_public_group(body, st) ==
    LET st1 == ReadGroups(st)
    IN  IF group_exists(body, st1.g) = FALSE THEN st1
        ELSE WriteConfig([st1 EXCEPT !.c["public"] = @ \cup {body}],
                         "public", <<body>>)

make_private_group(body, st) ==
    LET st1 == ReadGroups(st)
    IN  IF group_exists(body, st1.g) = FALSE THEN st1
        \* line 687 removes the option from section "private"
        ELSE IF "private" \notin DOMAIN st1.c
             THEN Raise(st1, "NoSectionError")
             ELSE WriteConfig([st1 EXCEPT !.c["private"] = @ \ {body}],
                              "private", <<body>>)

\* configparser's name of the section of defaults
DEFAULTSECT == <<"D","E","F","A","U","L","T">>

\* create_group, lines 703-728.  Two names pass the validation and are not
\* sections of the page, and are no section configparser can create:
\* add_section raises ValueError for DEFAULT; and with the empty name
\* (a creategroup message without data) line 724 sets the author in the
\* defaults, which the page written carries as [DEFAULT] and every section
\* of the page read again lists among its options.  (The written page also
\* ends with the line "[]", read again as one more option of the section
\* before it; the order of the sections is not modelled, and neither is
\* that option.)
create_group(body, author, st) ==
    LET group_name == Upper(body)
        v == ValidateGroupName(group_name)
    IN  IF ~v.ok
        THEN SendPm(st, "Cannot create group", author, <<v.msg.group>>)
        ELSE LET st1 == ReadGroups(st)
                 doc == [ x \in DOMAIN st1.g \cup {group_name} |->
                            IF x = group_name THEN {author} ELSE st1.g[x] ]
                 defaults == [ x \in DOMAIN st1.g |-> st1.g[x] \cup {author} ]
             IN  IF group_exists(body, st1.g) = TRUE THEN st1
                 ELSE IF group_name = DEFAULTSECT
                      THEN Raise(st1, "ValueError")
                 ELSE WriteGroups(
                          SendPm(st1, "Created Group", author, <<group_name>>),
                          IF group_name = <<>> THEN defaults ELSE doc,
                          "Created new Group", <<>>, <<group_name>>)

\* a delete_group that removes the section of the name as it was typed
DeleteGroupAsTyped(body, author, st) ==
    LET st1 == ReadGroups(st)
        doc == [ x \in DOMAIN st1.g \ {body} |-> st1.g[x] ]
    IN  IF group_exists(body, st1.g) = FALSE THEN st1
        ELSE WriteGroups(
                 SendPm(st1, "Removed Group", author, <<Upper(body)>>),
                 doc, "Removed Group", <<>>, <<Upper(body)>>)

delete_group(body, author, st) ==
    LET st1 == ReadGroups(st)
        doc == [ x \in DOMAIN st1.g \ {Upper(body)} |-> st1.g[x] ]
    IN  IF group_exists(body, st1.g) = FALSE THEN st1
        ELSE WriteGroups(
                 SendPm(st1, "Removed Group", author, <<Upper(body)>>),
                 doc, "Removed Group", <<>>, <<Upper(body)>>)

add_user_to_group(st) == st

remove_user_from_group(st) == st

\* the closure a dictionary key names, applied to (data, author)
\* the closures whose first access to the store is the read of the registry
\* page: all but help and the two stubs, and create_group once the name
\* has passed the validation
ReadsGroups(command, data) ==
    \/ command \in {C_addtogroup, C_unsubscribe, C_removefromgroup, C_list,
                     C_protectgroup, C_unprotectgroup, C_makepublicgroup,
                     C_makeprivategroup, C_deletegroup}
    \/ command = C_creategroup /\ ValidateGroupName(Upper(data)).ok

CallCommand(command, mod, data, author, st0) ==
    LET st == [st0 EXCEPT !.handler = command]
    IN  IF ReadsGroups(command, data) /\ ~RegistryParses(st.g)
        THEN Raise(ReadGroups(st), "ParsingError")
        ELSE
        CASE command = C_addtogroup -> add_to_group(data, author, st)
          [] command = C_unsubscribe -> unsubscribe(data, author, st)
          [] command = C_removefromgroup -> remove_from_group(data, author, st)
          [] command = C_list -> list_groups(author, st)
          [] command = C_help -> help_command(mod, author, st)
          [] command = C_protectgroup -> protect_group(data, st)
          [] command = C_unprotectgroup -> unprotect_group(data, st)
          [] command = C_makepublicgroup -> make_public_group(data, st)
          [] command = C_makeprivategroup -> make_private_group(data, st)
          [] command = C_creategroup -> create_group(data, author, st)
          [] command = C_deletegroup -> delete_group(data, author, st)
          [] command = C_addusertogroup -> add_user_to_group(st)
          [] command = C_removeuserfromgroup -> remove_user_from_group(st)

\* lines 793-796: a moderator's command is looked up in both dictionaries,
\* anyone else's in public_commands only; a missing key raises KeyError
run_command(author, mod, command, data, st) ==
    LET table == IF mod THEN RunPublicCommands \o RunModCommands
                 ELSE RunPublicCommands
    IN  IF command \in Range(table)
        THEN CallCommand(command, mod, data, author, st)
        ELSE Raise(st, "KeyError")

\* lines 417-428, once the command and the tables are known
DispatchSkipsModCheck(command, data, author, public_commands, mod_commands, st) ==
    IF command \in public_commands \cup mod_commands
    THEN run_command(author, is_moderator(author), command, data, st)
    ELSE SendErrorPm(st, "Invalid Command", author, <<command>>)

Dispatch(command, data, author, public_commands, mod_commands, st) ==
    IF command \in public_commands \cup mod_commands
    THEN LET is_mod == is_moderator(author)
         IN  IF command \in mod_commands /\ ~is_mod
             THEN SendErrorPm(st, "Mod-only Command", author, <<command>>)
             ELSE run_command(author, is_mod, command, data, st)
    ELSE SendErrorPm(st, "Invalid Command", author, <<command>>)

\* a handle_command that keeps the self.config it has
HandleCommandStale(message, st) ==
    LET words == SplitWs(Lower(message.body))
    IN  IF words = <<>> THEN Raise(st, "IndexError")
        ELSE Dispatch(words[1], Join(Tail(words), <<" ">>), message.author,
                      st.c["commands"], st.c["mod_commands"], st)

handle_command(message, st) ==
    LET words == SplitWs(Lower(message.body))
    IN  IF words = <<>> THEN Raise(st, "IndexError")
        ELSE IF ~ConfigParses(st.wc)
             THEN Raise(Emit(st, EvRead("config")), "ParsingError")
        ELSE LET command == words[1]
                 data == Join(Tail(words), <<" ">>)
                 st1 == RefreshConfig(st)
             IN  Dispatch(command, data, message.author,
                          st1.c["commands"], st1.c["mod_commands"], st1)

----------------------------------------------------------------------------
(* self.parsed and the file parsed.pkl.                                    *)

\* Deque(maxlen=10000)
PARSED_MAXLEN == 10000

\* an append that at maxlen drops the rightmost element
DequeAppendEvictsNewest(d, x) ==
    IF Len(d) >= PARSED_MAXLEN
    THEN Append(SubSeq(d, 1, Len(d) - 1), x)
    ELSE Append(d, x)

\* deque.append: at maxlen the leftmost element is dropped
DequeAppend(d, x) ==
    IF Len(d) >= PARSED_MAXLEN THEN Append(Tail(d), x) ELSE Append(d, x)

\* The content of parsed.pkl: no file, a file of no bytes, bytes that are no
\* pickle, or the pickle of an object, a deque with its maxlen (0 for None)
\* or a list.
Pkl(kind, items, maxlen) == [kind |-> kind, items |-> items, maxlen |-> maxlen]

PklAbsent == Pkl("absent", <<>>, 0)
PklEmpty == Pkl("empty", <<>>, 0)
PklCorrupt == Pkl("corrupt", <<>>, 0)

\* pickle.dumps(self.parsed): the items in order and the deque's maxlen
Dumps(d) == Pkl("deque", d, PARSED_MAXLEN)

\* Deque(iterable, maxlen=10000): the last 10000 items
DequeOf(items) ==
    IF Len(items) <= PARSED_MAXLEN THEN items
    ELSE SubSeq(items, Len(items) - PARSED_MAXLEN + 1, Len(items))

\* load, lines 68-85.  FileNotFoundError and EOFError are the two handlers;
\* pickle.loads of other bytes raises UnpicklingError, and an unpickled
\* object that is no deque has no maxlen (AttributeError).
load(file) ==
    CASE file.kind = "absent" -> [exc |-> "none", items |-> <<>>]
      [] file.kind = "empty" -> [exc |-> "none", items |-> <<>>]
      [] file.kind = "corrupt" -> [exc |-> "UnpicklingError", items |-> <<>>]
      [] file.kind = "list" -> [exc |-> "AttributeError", items |-> <<>>]
      [] file.kind = "deque" ->
            IF file.maxlen # PARSED_MAXLEN
            THEN [exc |-> "none", items |-> DequeOf(file.items)]
            ELSE [exc |-> "none", items |-> file.items]

\* a save that pickles the identifiers as a list
SaveAsList(d) == Pkl("list", d, 0)

\* save, lines 90-91
save(d) == Dumps(d)

----------------------------------------------------------------------------
(* The comment handler.                                                    *)

\* lines 233-241: for each word !PING the next word, split on '+'; a !PING
\* that is the last word ends the scan
RECURSIVE TokensFrom(_, _)
TokensFrom(split, index) ==
    IF index > Len(split) THEN <<>>
    ELSE IF split[index] = PING
         THEN IF index + 1 > Len(split) THEN <<>>
              ELSE SplitOn(split[index + 1], "+") \o TokensFrom(split, index + 1)
         ELSE TokensFrom(split, index + 1)

\* a trailing !PING taken as a request for the empty group
RECURSIVE TokensFromKeepsLast(_, _)
TokensFromKeepsLast(split, index) ==
    IF index > Len(split) THEN <<>>
    ELSE IF split[index] = PING
         THEN IF index + 1 > Len(split) THEN << <<>> >>
              ELSE SplitOn(split[index + 1], "+")
                       \o TokensFromKeepsLast(split, index + 1)
         ELSE TokensFromKeepsLast(split, index + 1)

TokensKeepsLast(body) == TokensFromKeepsLast(SplitWs(Upper(body)), 1)

Tokens(body) == TokensFrom(SplitWs(Upper(body)), 1)

\* handle_ping, lines 274-312.  The loop body cannot complete: line 288
\* reads the members of the section before line 289 tests that it exists
\* (NoSectionError), and for an existing section line 292 calls
\* self.in_groups, which the class does not define (AttributeError).  With
\* no group, line 301 compares a list with an integer (TypeError).
PingLoop(groups, st) ==
    IF groups = <<>> THEN st
    ELSE IF Upper(groups[1]) \notin DOMAIN st.g
         THEN Raise(st, "NoSectionError")
         ELSE Raise(st, "AttributeError")

handle_ping(groups, comment, st) ==
    LET st0 == [st EXCEPT !.ping = [called |-> TRUE, groups |-> groups]]
        st1 == ReadGroups(RefreshConfig(st0))
        st2 == PingLoop(groups, st1)
    IN  IF ~ConfigParses(st.wc)
        THEN Raise(Emit(st0, EvRead("config")), "ParsingError")
        ELSE IF ~RegistryParses(st.g)
        THEN Raise(st1, "ParsingError")
        ELSE IF st2.exc # "none" THEN st2
        ELSE IF Len(st2.classes.invalid_groups) = 1 THEN st2
        ELSE Raise(st2, "TypeError")

\* ping_users, lines 315-394.  With an error message, lines 319-323 call the
\* bare name send_error_pm, which nothing defines (NameError).  Without
\* one and with a group, line 351 reads the local `group` that only the
\* loop of line 366 assigns (UnboundLocalError): the reply of line 355, the
\* notification loop of lines 362-385 and the edit of line 390 are not
\* reached, for any list of users and any outcome of a delivery.
ping_users(groups, users, error_message, comment, st) ==
    IF error_message # <<>> THEN Raise(st, "NameError")
    ELSE IF groups = <<>> THEN st
    ELSE Raise(st, "UnboundLocalError")

\* a handle_comment that records the comments that carry a trigger only
HandleCommentRecordsTriggers(comment, st) ==
    LET tokens == Tokens(comment.body)
        st1 == [st EXCEPT !.tokens = tokens]
    IN  IF tokens = <<>> THEN st1
        ELSE Raise([st1 EXCEPT !.parsed = DequeAppend(@, comment.id)],
                   "NameError")

\* handle_comment, lines 231-267.  With a token, line 253 evaluates the bare
\* name MAX_PINGS_PER_COMMENT, which is a class attribute and no global:
\* NameError, before any token is validated and before handle_ping.
handle_comment(comment, st) ==
    LET tokens == Tokens(comment.body)
        st1 == [st EXCEPT !.parsed = DequeAppend(@, comment.id),
                          !.tokens = tokens]
    IN  IF tokens = <<>> THEN st1 ELSE Raise(st1, "NameError")

----------------------------------------------------------------------------
(* The earlier comment handler, src/user_pinger/user_pinger.py: the first  *)
(* trigger only, one group, no validation.                                 *)

EvReply(arg) == Ev("reply", "", "Pinging members", <<>>, arg)
EvEdit(arg) == Ev("edit", "", "Pinged members", <<>>, arg)

\* send_error_pm: author.message(subject="Ping Error", ...)
legacy_send_error_pm(st, author, arg) == SendPm(st, "Ping Error", author, arg)

\* the loop of ping_users: a message to every user but the comment's author
RECURSIVE legacy_notify(_, _, _, _)
legacy_notify(st, users, group, comment) ==
    IF users = <<>> THEN st
    ELSE IF Lower(users[1]) = Lower(comment.author)
         THEN legacy_notify(st, Tail(users), group, comment)
         ELSE legacy_notify(
                  SendPm(st, "You've been pinged", users[1], <<group>>),
                  Tail(users), group, comment)

legacy_ping_users(group, users, comment, st) ==
    LET posted == Emit(st, EvReply(<<group>>))
        pinged == legacy_notify(posted, users, group, comment)
    IN  Emit(pinged, EvEdit(<<group>>))

legacy_handle_ping(group, comment, st) ==
    LET st1 == ReadGroups(RefreshConfig(
                   [st EXCEPT !.ping = [called |-> TRUE, groups |-> <<group>>]]))
    IN  \* get_group_members: None when the page has no such section
        IF group \notin DOMAIN st1.g
        THEN legacy_send_error_pm(st1, comment.author, <<group>>)
        ELSE IF ~( \/ in_group(comment.author, st1.g[group])
                   \/ public_group(group, st1.c)
                   \/ is_moderator(comment.author) )
             THEN legacy_send_error_pm(st1, comment.author, <<group>>)
             ELSE legacy_ping_users(group, SeqOfSet(st1.g[group]), comment, st1)

legacy_handle(comment, st) ==
    LET split == SplitWs(Upper(comment.body))
        st1 == [st EXCEPT !.parsed = DequeAppend(@, comment.id)]
    IN  IF PING \notin Range(split) THEN st1
        ELSE LET index == CHOOSE i \in DOMAIN split :
                              /\ split[i] = PING
                              /\ \A j \in 1..(i - 1) : split[j] # PING
             IN  IF index + 1 > Len(split) THEN st1
                 ELSE legacy_handle_ping(
                          split[index + 1], comment,
                          [st1 EXCEPT !.tokens = <<split[index + 1]>>])

----------------------------------------------------------------------------
(* The inputs of the polling loop.                                         *)

W_hello == <<"h","e","l","l","o">>
W_ping == <<"!","p","i","n","g">>
W_world == <<"w","o","r","l","d">>

Text(words) == Join(words, <<" ">>)

\* comment bodies: without a trigger, with a trigger and no group, with one
\* private group, with more tokens than are honoured, with a bad character
CommentBodies ==
    { Text(<<W_hello>>),
      Text(<<W_hello, W_ping>>),
      Text(<<W_ping, FO>>),
      Text(<<W_ping, Lower(BA)>>),
      Text(<<W_hello, W_ping, FO \o <<"+">> \o BA, W_world, PING,
             ZE \o <<"+">> \o FO>>),
      Text(<<W_ping, <<"F","_","O">> >>),
      Text(<<W_ping, FO \o <<"+">> \o <<"b","?","a">> >>) }

CommentIds == {"c1"}

Comments ==
    [id : CommentIds, author : Authors, body : CommentBodies,
     banned : {FALSE}, old : {FALSE}]
    \cup [id : CommentIds, author : {AL}, body : {Text(<<W_ping, FO>>)},
          banned : BOOLEAN, old : BOOLEAN]

\* commands that take a list of groups, with one group, two groups joined
\* by '+' or by ', ', and a group that does not exist
ListCommands == {C_addtogroup, C_removefromgroup, C_unsubscribe}

ListData ==
    { Lower(FO),
      Lower(FO) \o <<"+">> \o Lower(BA),
      Lower(BA) \o <<",", " ">> \o Lower(FO),
      Lower(ZE) }

MessageBodies ==
    { Text(<<cmd, d>>) : cmd \in ListCommands, d \in ListData }
    \cup { Text(<<cmd, Lower(FO)>>) :
             cmd \in {C_protectgroup, C_unprotectgroup, C_makepublicgroup,
                      C_makeprivategroup, C_deletegroup, C_creategroup} }
    \cup { Text(<<C_creategroup, Lower(ZE)>>),
           Text(<<C_creategroup, <<"z", "_", "e">> >>),
           Text(<<C_deletegroup, Lower(BA) \o Lower(BA)>>) }
    \cup { C_creategroup, Text(<<C_creategroup, Lower(DEFAULTSECT)>>),
           Text(<<C_protectgroup, Lower(ZE)>>),
           Text(<<C_unprotectgroup, Lower(ZE)>>) }
    \cup { C_help, C_list, C_bogus, C_addusertogroup, C_removeuserfromgroup,
           C_unsubscribe, <<>>, <<" ">>,
           Text(<<Upper(C_list)>>) }

NoAuthor == <<>>

Messages ==
    [author : Authors, body : MessageBodies]
    \cup [author : {NoAuthor}, body : {C_help}]

\* the command tables of the config page: the tiers of the command catalogue
AllCommands == Range(RunPublicCommands) \cup Range(RunModCommands)

CataloguePublic == {C_help, C_addtogroup, C_removefromgroup, C_unsubscribe, C_list}

\* the registry pages the model starts from: the author AL a member of FO,
\* or of no group, and BA present or absent
Registries ==
    { [ g \in {FO, BA} |-> IF g = FO THEN {AL} ELSE {BO} ],
      [ g \in {FO, BA} |-> {BO} ],
      [ g \in {FO} |-> {BO} ] }

FlagSets == { {}, {Lower(FO)} }

ConfigPages ==
    { [ sec \in {"public", "protected", "commands", "mod_commands"} |->
          CASE sec = "public" -> pub
            [] sec = "protected" -> prot
            [] sec = "commands" -> CataloguePublic
            [] sec = "mod_commands" -> AllCommands \ CataloguePublic ] :
      pub \in FlagSets, prot \in FlagSets }

----------------------------------------------------------------------------
(* The polling loop.                                                       *)

Op(kind, id, author, body, groups) ==
    [kind |-> kind, id |-> id, author |-> author, body |-> body,
     groups |-> groups]

Out(st) ==
    [exc |-> st.exc, log |-> st.log, handler |-> st.handler,
     tokens |-> st.tokens, ping |-> st.ping, classes |-> st.classes,
     ret |-> st.ret]

Self == Ctx(wikiGroups, wikiConfig, config, parsed)

\* the exceptions of prawcore that listen catches, to sleep a minute and
\* return (lines 188-196; lines 123-131 of the earlier listen)
ListenCatches == {"ServerError", "ResponseException", "RequestException"}

Apply(st) ==
    /\ wikiGroups' = st.g
    /\ wikiConfig' = st.wc
    /\ config' = st.c
    /\ parsed' = st.parsed
    /\ pkl' = pkl
    /\ out' = Out(st)
    \* an exception that leaves listen leaves the service loop
    /\ running' = (st.exc \in {"none"} \cup ListenCatches)

\* a listen that hands every live comment to the handler
ListenCommentNoDedup(comment) ==
    /\ running
    /\ IF comment.banned \/ comment.old
       THEN /\ op' = Op("comment skipped", comment.id, comment.author,
                        comment.body, <<>>)
            /\ Apply(Self)
       ELSE /\ op' = Op("comment", comment.id, comment.author,
                        comment.body, <<>>)
            /\ Apply(handle_comment(comment, Self))

\* a listen that moves a comment it has seen to the newest end of the cache
ListenCommentRefreshesSeen(comment) ==
    /\ running
    /\ IF comment.banned \/ comment.old
       THEN /\ op' = Op("comment skipped", comment.id, comment.author,
                        comment.body, <<>>)
            /\ Apply(Self)
       ELSE IF comment.id \in Range(parsed)
       THEN /\ op' = Op("comment skipped", comment.id, comment.author,
                        comment.body, <<>>)
            /\ Apply([Self EXCEPT !.parsed =
                         Append(SelectSeq(parsed, LAMBDA x : x # comment.id),
                                comment.id)])
       ELSE /\ op' = Op("comment", comment.id, comment.author,
                        comment.body, <<>>)
            /\ Apply(handle_comment(comment, Self))

\* listen, lines 169-180: one comment of the stream
ListenComment(comment) ==
    /\ running
    /\ IF \/ comment.banned
          \/ comment.old
          \/ comment.id \in Range(parsed)
       THEN /\ op' = Op("comment skipped", comment.id, comment.author,
                        comment.body, <<>>)
            /\ Apply(Self)
       ELSE /\ op' = Op("comment", comment.id, comment.author,
                        comment.body, <<>>)
            /\ Apply(handle_comment(comment, Self))

\* listen, lines 181-187: one unread message
ListenMessage(message) ==
    /\ running
    /\ op' = Op("message", "", message.author, message.body, <<>>)
    /\ IF message.author = NoAuthor
       THEN Apply(Emit(Self, EvMarkRead))
       ELSE LET st == handle_command(message, Self)
            IN  Apply(IF st.exc = "none" THEN Emit(st, EvMarkRead) ELSE st)

\* the earlier listen, lines 111-116: one comment of the stream
LegacyListenComment(comment) ==
    /\ running
    /\ IF comment.id \in Range(parsed)
       THEN /\ op' = Op("legacy comment skipped", comment.id, comment.author,
                        comment.body, <<>>)
            /\ Apply(Self)
       ELSE /\ op' = Op("legacy comment", comment.id, comment.author,
                        comment.body, <<>>)
            /\ Apply(legacy_handle(comment, Self))

\* an earlier handle that records the comment when it has handled it
LegacyHandleCutRecordsLast(comment, n, st) ==
    LET full == legacy_handle(comment, st)
    IN  IF n >= Len(full.log) THEN full
        ELSE [full EXCEPT !.log = SubSeq(full.log, 1, n),
                          !.exc = "RequestException",
                          !.parsed = st.parsed,
                          !.c = IF n >= 1 THEN full.c ELSE st.c]

\* the earlier handle when reddit answers its first n requests (the reads of
\* the two pages, the reply, each message, the edit) and the next request
\* raises prawcore's RequestException: the append to self.parsed precedes
\* them all, and self.config is assigned by the first
legacy_handle_cut(comment, n, st) ==
    LET full == legacy_handle(comment, st)
    IN  IF n >= Len(full.log) THEN full
        ELSE [full EXCEPT !.log = SubSeq(full.log, 1, n),
                          !.exc = "RequestException",
                          !.c = IF n >= 1 THEN full.c ELSE st.c]

\* the earlier listen, one comment of the stream, reddit failing after n
\* requests of its handling
LegacyListenCommentCut(comment, n) ==
    /\ running
    /\ IF comment.id \in Range(parsed)
       THEN /\ op' = Op("legacy comment skipped", comment.id, comment.author,
                        comment.body, <<>>)
            /\ Apply(Self)
       ELSE /\ op' = Op("legacy comment", comment.id, comment.author,
                        comment.body, <<>>)
            /\ Apply(legacy_handle_cut(comment, n, Self))

NoOp == Op("none", "", <<>>, <<>>, <<>>)

Init ==
    /\ wikiGroups \in Registries
    /\ wikiConfig \in ConfigPages
    /\ config = wikiConfig
    /\ parsed = <<>>
    /\ pkl = PklAbsent
    /\ running = TRUE
    /\ op = NoOp
    /\ out = Out(Self)

Next ==
    \/ \E comment \in Comments : ListenComment(comment)
    \/ \E message \in Messages : ListenMessage(message)

Spec == Init /\ [][Next]_vars

----------------------------------------------------------------------------
(* _validate_group_name applied to names drawn from a small alphabet.      *)

MaxNameLen == 2

SeqsUpTo(S, n) == UNION { [1..k -> S] : k \in 0..n }

ValidateAlphabet == {"A", "Z", "0", "9", "-", "+", "a", " ", "_", "!"}

ValidateNames == SeqsUpTo(ValidateAlphabet, MaxNameLen)

FixedRegistry == [ g \in {FO, BA} |-> IF g = FO THEN {AL} ELSE {BO} ]

FixedConfig ==
    [ sec \in {"public", "protected", "commands", "mod_commands"} |->
        CASE sec = "public" -> {}
          [] sec = "protected" -> {}
          [] sec = "commands" -> CataloguePublic
          [] sec = "mod_commands" -> AllCommands \ CataloguePublic ]

InitFixed ==
    /\ wikiGroups = FixedRegistry
    /\ wikiConfig = FixedConfig
    /\ config = wikiConfig
    /\ parsed = <<>>
    /\ pkl = PklAbsent
    /\ running = TRUE
    /\ out = Out(Self)

InitValidate ==
    /\ InitFixed
    /\ op \in { Op("validate pending", "", <<>>, name, <<>>) :
                  name \in ValidateNames }

Validate ==
    /\ op.kind = "validate pending"
    /\ op' = [op EXCEPT !.kind = "validate"]
    /\ out' = [out EXCEPT !.ret = ValidateGroupName(op.body)]
    /\ UNCHANGED <<wikiGroups, wikiConfig, config, parsed, running, pkl>>

SpecValidate == InitValidate /\ [][Validate]_vars

----------------------------------------------------------------------------
(* handle_comment applied to comments drawn from a pool of words.          *)

MaxWords == 4

WordPool ==
    { W_ping, W_hello, FO, FO \o <<"+">> \o BA, <<"b", "?", "a">>,
      ZE \o <<"+">> }

ParseBodies == { Text(words) : words \in SeqsUpTo(WordPool, MaxWords) }

InitParse ==
    /\ InitFixed
    /\ op \in { Op("comment pending", "c1", AL, body, <<>>) :
                  body \in ParseBodies }

ParseComment ==
    /\ op.kind = "comment pending"
    /\ ListenComment([id |-> op.id, author |-> op.author, body |-> op.body,
                      banned |-> FALSE, old |-> FALSE])

LegacyParseComment ==
    /\ op.kind = "comment pending"
    /\ LegacyListenComment([id |-> op.id, author |-> op.author,
                            body |-> op.body])

NextParse == ParseComment \/ LegacyParseComment

SpecParse == InitParse /\ [][NextParse]_vars

----------------------------------------------------------------------------
(* handle_ping applied to validated group lists, for every registry and    *)
(* flag page of the model.                                                 *)

PingGroupLists ==
    { <<>>, <<FO>>, <<BA>>, <<ZE>>, <<FO, BA>>, <<ZE, FO>>, <<FO, ZE>> }

InitPing ==
    /\ wikiGroups \in Registries
    /\ wikiConfig \in ConfigPages
    /\ config = wikiConfig
    /\ parsed = <<>>
    /\ pkl = PklAbsent
    /\ running = TRUE
    /\ out = Out(Self)
    /\ op \in { Op("ping pending", "c1", author, <<>>, groups) :
                  author \in Authors, groups \in PingGroupLists }

HandlePing ==
    /\ op.kind = "ping pending"
    /\ op' = [op EXCEPT !.kind = "ping"]
    /\ Apply(handle_ping(op.groups,
                         [id |-> op.id, author |-> op.author], Self))

SpecPing == InitPing /\ [][HandlePing]_vars

----------------------------------------------------------------------------
(* ping_users applied to resolved group lists, member lists, an error      *)
(* message or none, and an outcome of the delivery to each member.         *)

PingUsersGroups == { <<>>, <<FO>>, <<FO, BA>> }

PingUsersLists == { <<>>, <<BO>>, <<AL, BO>>, <<BO, MO>> }

ErrorMessages == { <<>>, <<"*">> }

\* what reddit answers to a delivery: it accepts it, or refuses it with an
\* APIException of some error type
Deliveries == {"ok", "USER_DOESNT_EXIST", "INVALID_USER", "RATELIMIT"}

PingUsersOp(kind, author, groups, users, error_message, fails) ==
    [kind |-> kind, id |-> "c1", author |-> author, body |-> <<>>,
     groups |-> groups, users |-> users, error_message |-> error_message,
     fails |-> fails]

InitPingUsers ==
    /\ InitFixed
    /\ op \in { PingUsersOp("ping_users pending", author, groups, users,
                             error_message, fails) :
                  author \in {AL}, groups \in PingUsersGroups,
                  users \in PingUsersLists, error_message \in ErrorMessages,
                  fails \in [{BO, MO} -> Deliveries] }

PingUsers ==
    /\ op.kind = "ping_users pending"
    /\ op' = [op EXCEPT !.kind = "ping_users"]
    /\ Apply(ping_users(op.groups, op.users, op.error_message,
                        [id |-> op.id, author |-> op.author], Self))

SpecPingUsers == InitPingUsers /\ [][PingUsers]_vars

----------------------------------------------------------------------------
(* The cache filled past its capacity: comments without a trigger, with    *)
(* the identifiers 1, 2, 3, ... in order, from an empty cache and from a   *)
(* file that holds more identifiers than the capacity.                     *)

FifoExtra == 2

FifoLast == PARSED_MAXLEN + FifoExtra

FifoFiles ==
    { PklAbsent,
      Pkl("deque", [i \in 1..(PARSED_MAXLEN + 1) |-> i], 0) }

InitFifo ==
    /\ wikiGroups = FixedRegistry
    /\ wikiConfig = FixedConfig
    /\ config = wikiConfig
    /\ pkl \in FifoFiles
    /\ parsed = load(pkl).items
    /\ running = TRUE
    /\ op = Op("fifo pending", Len(pkl.items), <<>>, <<>>, <<>>)
    /\ out = Out(Self)

Record ==
    /\ op.id < FifoLast
    /\ ListenComment([id |-> op.id + 1, author |-> AL,
                      body |-> Text(<<W_hello>>), banned |-> FALSE,
                      old |-> FALSE])

SpecFifo == InitFifo /\ [][Record]_vars

----------------------------------------------------------------------------
(* The stream delivering again comments of a cache at capacity, among new  *)
(* ones.                                                                   *)

RedeliverExtra == 3

\* the oldest and the newest identifier of the full cache, and new ones
RedeliverIds ==
    {1, PARSED_MAXLEN} \cup (PARSED_MAXLEN + 1)..(PARSED_MAXLEN + RedeliverExtra)

InitRedeliver ==
    /\ wikiGroups = FixedRegistry
    /\ wikiConfig = FixedConfig
    /\ config = wikiConfig
    /\ pkl = Pkl("deque", [i \in 1..PARSED_MAXLEN |-> i], PARSED_MAXLEN)
    /\ parsed = load(pkl).items
    /\ running = TRUE
    /\ op = NoOp
    /\ out = Out(Self)

Redeliver ==
    \E id \in RedeliverIds, body \in {Text(<<W_hello>>), Text(<<W_ping, FO>>)} :
        ListenComment([id |-> id, author |-> AL, body |-> body,
                       banned |-> FALSE, old |-> FALSE])

SpecRedeliver == InitRedeliver /\ [][Redeliver]_vars

----------------------------------------------------------------------------
(* The life of the process: construction with the load of parsed.pkl, the  *)
(* comment stream with redelivery, and the termination signal.  The same   *)
(* life is run for the earlier handler; which of the two runs is fixed at  *)
(* the start and carried in op.kind.                                       *)

CacheRegistry == [ g \in {FO} |-> {AL, BO} ]

\* the comments of the stream: each identifier is one comment
CacheComments ==
    { [id |-> "c1", author |-> AL, body |-> Text(<<W_ping, FO>>),
       banned |-> FALSE, old |-> FALSE],
      [id |-> "c2", author |-> MO, body |-> Text(<<W_hello>>),
       banned |-> FALSE, old |-> FALSE],
      [id |-> "c3", author |-> AL, body |-> Text(<<W_hello, W_ping>>),
       banned |-> FALSE, old |-> FALSE] }

\* what the file can hold when the process starts
PklFiles ==
    { PklAbsent, PklEmpty, PklCorrupt,
      Pkl("list", <<"c1">>, 0),
      Pkl("deque", <<"c1">>, PARSED_MAXLEN),
      Pkl("deque", <<"c2", "c1">>, 0),
      Pkl("deque", <<"c3">>, 2) }

LegacyKinds ==
    { "legacy boot", "legacy start", "legacy comment",
      "legacy comment skipped", "legacy exit" }

IsLegacy == op.kind \in LegacyKinds

Kind(name) == IF IsLegacy THEN "legacy " \o name ELSE name

InitCache ==
    /\ wikiGroups = CacheRegistry
    /\ wikiConfig = FixedConfig
    /\ config = wikiConfig
    /\ parsed = <<>>
    /\ pkl \in PklFiles
    /\ running = FALSE
    /\ op \in { Op(k, "", <<>>, <<>>, <<>>) : k \in {"boot", "legacy boot"} }
    /\ out = Out(Self)

\* __init__, lines 50-53: the config page is read, parsed.pkl is loaded and
\* the handler of SIGTERM is registered; then service.py enters its loop
Start ==
    /\ ~running
    /\ LET loaded == load(pkl)
           st == RefreshConfig(Self)
       IN  /\ op' = Op(Kind("start"), "", <<>>, <<>>, <<>>)
           /\ parsed' = loaded.items
           /\ config' = st.c
           /\ running' = (loaded.exc = "none")
           /\ out' = Out(Raise(st, loaded.exc))
           /\ UNCHANGED <<wikiGroups, wikiConfig, pkl>>

\* a handler of SIGTERM that exits without the save
ExitWithoutSave ==
    /\ running
    /\ op' = Op(Kind("exit"), "", <<>>, <<>>, <<>>)
    /\ running' = FALSE
    /\ out' = Out(Self)
    /\ UNCHANGED <<wikiGroups, wikiConfig, config, parsed, pkl>>

\* exit, lines 56-63, the handler of SIGTERM: save, then os._exit
Exit ==
    /\ running
    /\ op' = Op(Kind("exit"), "", <<>>, <<>>, <<>>)
    /\ pkl' = save(parsed)
    /\ running' = FALSE
    /\ out' = Out(Self)
    /\ UNCHANGED <<wikiGroups, wikiConfig, config, parsed>>

CacheListen ==
    \E comment \in CacheComments :
        IF IsLegacy
        THEN LegacyListenComment([id |-> comment.id,
                                  author |-> comment.author,
                                  body |-> comment.body])
        ELSE ListenComment(comment)

NextCache == Start \/ Exit \/ CacheListen

SpecCache == InitCache /\ [][NextCache]_vars

----------------------------------------------------------------------------
(* The stream delivering its comments again and again to one process,      *)
(* reddit failing at any request of the earlier handler.                   *)

OnceRequests == 6

OnceRegistry == [ g \in {FO} |-> {AL, BO, MO} ]

OnceComments ==
    { [id |-> "c1", author |-> AL, body |-> Text(<<W_ping, FO>>),
       banned |-> FALSE, old |-> FALSE],
      [id |-> "c2", author |-> BO, body |-> Text(<<W_hello>>),
       banned |-> FALSE, old |-> FALSE],
      [id |-> "c3", author |-> BO, body |-> Text(<<W_ping, ZE>>),
       banned |-> FALSE, old |-> FALSE],
      [id |-> "c4", author |-> MO, body |-> Text(<<W_hello, W_ping>>),
       banned |-> FALSE, old |-> FALSE] }

InitOnce ==
    /\ wikiGroups = OnceRegistry
    /\ wikiConfig = FixedConfig
    /\ config = wikiConfig
    /\ parsed = <<>>
    /\ pkl = PklAbsent
    /\ running = TRUE
    /\ op \in { Op(k, "", <<>>, <<>>, <<>>) : k \in {"boot", "legacy boot"} }
    /\ out = Out(Self)

OnceListen ==
    /\ ~IsLegacy
    /\ \E comment \in OnceComments : ListenComment(comment)

OnceLegacyListen ==
    /\ IsLegacy
    /\ \E comment \in OnceComments, n \in 0..OnceRequests :
           LegacyListenCommentCut([id |-> comment.id,
                                   author |-> comment.author,
                                   body |-> comment.body], n)

NextOnce == OnceListen \/ OnceLegacyListen

SpecOnce == InitOnce /\ [][NextOnce]_vars

----------------------------------------------------------------------------
(* The wiki pages edited by hand between two operations of the bot, the    *)
(* bot holding the self.config it read last.                               *)

\* a registry page and a config page saved with a line above the first
\* section header
MalformedRegistry == [ g \in {<<>>} |-> {AL} ]

MalformedConfig == [ sec \in {""} |-> {Lower(FO)} ]

StoreRegistries == Registries \cup {MalformedRegistry}

StoreConfigs == ConfigPages \cup {MalformedConfig}

StoreMessages ==
    [author : {AL, MO},
     body : { Text(<<C_addtogroup, Lower(FO)>>),
              Text(<<C_addtogroup, Lower(BA)>>),
              Text(<<C_deletegroup, Lower(BA)>>),
              Text(<<C_creategroup, Lower(ZE)>>),
              Text(<<C_creategroup, <<"z", "_", "e">> >>),
              C_list, C_help, C_bogus }]

StoreComments ==
    [id : {"c1"}, author : {AL}, body : {Text(<<W_hello>>), Text(<<W_ping, FO>>)},
     banned : {FALSE}, old : {FALSE}]

StorePingGroups == { <<FO>>, <<FO, BA>> }

InitStore ==
    /\ InitFixed
    /\ op = NoOp

\* a moderator saves a new revision of the two pages through the wiki editor
ExternalEdit ==
    \E g \in StoreRegistries, c \in StoreConfigs :
        /\ <<g, c>> # <<wikiGroups, wikiConfig>>
        /\ wikiGroups' = g
        /\ wikiConfig' = c
        /\ op' = Op("edit", "", <<>>, <<>>, <<>>)
        /\ out' = Out(Ctx(g, c, config, parsed))
        /\ UNCHANGED <<config, parsed, running, pkl>>

\* handle_ping called with a validated group list
StorePing ==
    \E author \in {AL, BO}, groups \in StorePingGroups :
        /\ running
        /\ op' = Op("ping", "c1", author, <<>>, groups)
        /\ Apply(handle_ping(groups, [id |-> "c1", author |-> author], Self))

NextStore ==
    \/ ExternalEdit
    \/ \E message \in StoreMessages : ListenMessage(message)
    \/ \E comment \in StoreComments : ListenComment(comment)
    \/ StorePing

SpecStore == InitStore /\ [][NextStore]_vars

----------------------------------------------------------------------------
(* The properties.  What a comment or a message asks for is computed here  *)
(* from its text, independently of the handlers.                           *)

IsPm(e) == e.ev = "pm"
IsWrite(e) == e.ev = "write"
IsRead(e) == e.ev = "read"

Events(log, P(_)) == { i \in DOMAIN log : P(log[i]) }

FirstN(s, n) == SubSeq(s, 1, IF Len(s) < n THEN Len(s) ELSE n)

\* the word after each occurrence of the trigger (in any case), split on '+'
RECURSIVE RequestedFrom(_, _)
RequestedFrom(words, i) ==
    IF i >= Len(words) THEN <<>>
    ELSE IF Upper(words[i]) = PING
         THEN SplitOn(Upper(words[i + 1]), "+") \o RequestedFrom(words, i + 1)
         ELSE RequestedFrom(words, i + 1)

RequestedTokens(body) == RequestedFrom(SplitWs(body), 1)

\* the tokens honoured: the first three, leading and trailing punctuation off
HonouredGroups(body) ==
    LET first == FirstN(RequestedTokens(body), MAX_PINGS_PER_COMMENT)
    IN  [ i \in DOMAIN first |-> Strip(first[i], GROUP_STRIP_PUNCT) ]

AllowedChar(c) ==
    \/ c \in {"A","B","C","D","E","F","G","H","I","J","K","L","M",
              "N","O","P","Q","R","S","T","U","V","W","X","Y","Z"}
    \/ c \in {"0","1","2","3","4","5","6","7","8","9"}
    \/ c = "-"
    \/ c = "+"

ValidName(name) == \A i \in DOMAIN name : AllowedChar(name[i])

IsMember(author, group) ==
    \E u \in wikiGroups[group] : Lower(u) = Lower(author)

Forbidden(author, group) ==
    /\ group \in DOMAIN wikiGroups
    /\ ~IsMember(author, group)
    /\ Lower(group) \notin wikiConfig["public"]
    /\ author \notin Moderators

\* the first word of a message in lower case, and the rest joined by blanks
MsgCommand(body) ==
    LET words == SplitWs(Lower(body))
    IN  IF words = <<>> THEN <<>> ELSE words[1]

MsgData(body) ==
    LET words == SplitWs(Lower(body))
    IN  IF words = <<>> THEN <<>> ELSE Join(Tail(words), <<" ">>)

\* the groups an addtogroup message names: a list separated by '+' or commas
NamedGroups(body) ==
    Range(SplitOn(ReplaceComma(ReplaceCommaSpace(MsgData(body))), "+"))

\* C1: handling a comment whose requested groups all exist, are not public
\* and do not list the requester, who is no moderator, notifies no member,
\* posts no acknowledgement and sends the requester a private error reply
\* (the one that carries the join link).
C1_ForbiddenPingIsReported ==
    LET req == HonouredGroups(op.body)
    IN  ( /\ op.kind = "comment"
          /\ req # <<>>
          /\ \A i \in DOMAIN req :
                 ValidName(req[i]) /\ Forbidden(op.author, req[i]) )
        => /\ \A i \in DOMAIN out.log :
                  out.log[i].ev \in {"pm", "reply"} =>
                      IsPm(out.log[i]) /\ out.log[i].who = op.author
           /\ \E i \in DOMAIN out.log :
                  /\ IsPm(out.log[i])
                  /\ out.log[i].who = op.author
                  /\ out.log[i].kind = "Invalid Group(s)"

\* C2: handle_ping puts every requested group in exactly one class without
\* raising: nonexistent iff the registry has no such section, forbidden iff
\* it exists and the requester is no member, it is not public and the
\* requester is no moderator, authorized otherwise.
C2_ClassifiesEveryGroup ==
    (op.kind = "ping" /\ op.groups # <<>>) =>
        /\ out.exc = "none"
        /\ \A i \in DOMAIN op.groups :
               LET g == op.groups[i]
                   missing == g \notin DOMAIN wikiGroups
               IN  /\ g \in Range(out.classes.invalid_groups) <=> missing
                   /\ g \in Range(out.classes.nonmember_groups)
                          <=> (~missing /\ Forbidden(op.author, g))
                   /\ g \in Range(out.classes.existant_groups)
                          <=> (~missing /\ ~Forbidden(op.author, g))

\* C3: an addtogroup message of a non-moderator that names a protected group
\* does not make the sender a member of that group, and when it names no
\* joinable group the registry page is not written and does not change.
C3_ProtectedGroupNotJoined ==
    [][ ( /\ op'.kind = "message"
          /\ MsgCommand(op'.body) = C_addtogroup
          /\ op'.author \notin Moderators \cup {NoAuthor} )
        => LET named == NamedGroups(op'.body)
               protected(g) ==
                   /\ Upper(g) \in DOMAIN wikiGroups
                   /\ Lower(g) \in wikiConfig["protected"]
               joinable(g) ==
                   /\ Upper(g) \in DOMAIN wikiGroups
                   /\ Lower(g) \notin wikiConfig["protected"]
           IN  /\ \A g \in named :
                      protected(g) =>
                          /\ Upper(g) \in DOMAIN wikiGroups'
                          /\ wikiGroups'[Upper(g)] = wikiGroups[Upper(g)]
               /\ ( (\E g \in named : protected(g))
                    /\ ~(\E g \in named : joinable(g)) )
                  => /\ wikiGroups' = wikiGroups
                     /\ Events(out'.log, IsWrite) = {}
      ]_vars

\* C4: an addtogroup message naming an existing, unprotected group leaves
\* the sender a member of it in the registry page, by a write whose reason
\* names the sender and the group, and the sender gets a confirmation.
C4_UnprotectedGroupJoined ==
    [][ ( /\ op'.kind = "message"
          /\ MsgCommand(op'.body) = C_addtogroup
          /\ op'.author # NoAuthor )
        => \A g \in NamedGroups(op'.body) :
               ( /\ Upper(g) \in DOMAIN wikiGroups
                 /\ Lower(g) \notin wikiConfig["protected"] )
               => /\ Upper(g) \in DOMAIN wikiGroups'
                  /\ op'.author \in wikiGroups'[Upper(g)]
                  /\ \E i \in DOMAIN out'.log :
                         /\ IsWrite(out'.log[i])
                         /\ out'.log[i].page = "groups"
                         /\ out'.log[i].who = op'.author
                         /\ out'.log[i].arg = <<Upper(g)>>
                  /\ \E i \in DOMAIN out'.log :
                         /\ IsPm(out'.log[i])
                         /\ out'.log[i].who = op'.author
      ]_vars

\* C5: a command handler runs only for a command of the combined table
\* and, for a moderator-only command, only for a moderator; a command that
\* is in neither table gets an "invalid command" reply, a moderator-only
\* command of a non-moderator a "mod-only" reply, and in both cases no
\* handler runs and no page is written.
C5_DispatchIsGuarded ==
    ( /\ op.kind = "message"
      /\ op.author # NoAuthor
      /\ MsgCommand(op.body) # <<>> )
    => LET command == MsgCommand(op.body)
           public == wikiConfig["commands"]
           modonly == wikiConfig["mod_commands"]
           replied(kind) ==
               \E i \in DOMAIN out.log :
                   /\ IsPm(out.log[i])
                   /\ out.log[i].kind = kind
                   /\ out.log[i].who = op.author
                   /\ out.log[i].arg = <<command>>
       IN  /\ out.handler # <<>> =>
                  /\ out.handler = command
                  /\ command \in public \cup modonly
                  /\ command \in modonly => op.author \in Moderators
           /\ command \notin public \cup modonly =>
                  /\ replied("Invalid Command")
                  /\ out.handler = <<>>
                  /\ Events(out.log, IsWrite) = {}
           /\ (command \in modonly /\ op.author \notin Moderators) =>
                  /\ replied("Mod-only Command")
                  /\ out.handler = <<>>
                  /\ Events(out.log, IsWrite) = {}

C5_ModOnlyRefused ==
    /\ op.kind = "message"
    /\ op.author = AL
    /\ MsgCommand(op.body) = C_protectgroup
    /\ \E i \in DOMAIN out.log : out.log[i].kind = "Mod-only Command"
    /\ out.handler = <<>>

\* C6: removefromgroup, help and list are public commands: sent by a
\* non-moderator, the handler of that name runs and replies to the sender,
\* with no mod-only error and no failure.
C6_PublicCommandsRunForAnyone ==
    ( /\ op.kind = "message"
      /\ op.author \notin Moderators \cup {NoAuthor}
      /\ MsgCommand(op.body) \in {C_removefromgroup, C_help, C_list} )
    => /\ out.handler = MsgCommand(op.body)
       /\ out.exc = "none"
       /\ \E i \in DOMAIN out.log :
              IsPm(out.log[i]) /\ out.log[i].who = op.author
       /\ \A i \in DOMAIN out.log : out.log[i].kind # "Mod-only Command"

\* C7: the tokens a comment is processed with are the first three (or all,
\* when there are fewer) of the words that follow the trigger occurrences,
\* split on '+', in order; further tokens are dropped without an error.
C7_ParserKeepsFirstThree ==
    op.kind = "comment" =>
        /\ out.exc = "none"
        /\ out.tokens = FirstN(RequestedTokens(op.body), MAX_PINGS_PER_COMMENT)

NoFollowedTrigger(body) ==
    LET words == SplitWs(body)
    IN  \A i \in 1..(Len(words) - 1) : Upper(words[i]) # PING

\* C8: a comment in which no trigger is followed by another word yields no
\* token, and handling it reads no page, posts nothing and sends no message
\* (in handle_comment and in the earlier handle).
C8_NoTokenNoEffect ==
    ( /\ op.kind \in {"comment", "legacy comment"}
      /\ NoFollowedTrigger(op.body) ) =>
        /\ out.tokens = <<>>
        /\ out.log = <<>>
        /\ out.exc = "none"
        /\ ~out.ping.called

C8_TrailingTrigger ==
    /\ op.kind = "comment"
    /\ op.body = Text(<<W_hello, W_ping>>)
    /\ out.log = <<>>
    /\ parsed = <<"c1">>

\* C9: _validate_group_name succeeds exactly for the names made of upper-case
\* letters, digits, '-' and '+'; otherwise its message names the group and
\* the allowed characters; it changes nothing.
C9_ValidateGroupName ==
    op.kind = "validate" =>
        /\ out.ret.ok <=> ValidName(op.body)
        /\ ~out.ret.ok =>
               /\ out.ret.msg.group = op.body
               /\ \A c \in ValidateAlphabet :
                      c \in out.ret.msg.allowed <=> AllowedChar(c)
        /\ out.log = <<>>
        /\ wikiGroups = FixedRegistry
        /\ wikiConfig = FixedConfig
        /\ config = FixedConfig
        /\ parsed = <<>>

C9_RejectedName ==
    /\ op.kind = "validate"
    /\ op.body = <<"A", "a">>
    /\ ~out.ret.ok

\* C10: a requested token with a character that is not allowed (after the
\* punctuation is stripped) is not resolved, and the requester gets a
\* private error reply that reports that name as invalid.
C10_InvalidNameIsReported ==
    LET req == HonouredGroups(op.body)
    IN  op.kind = "comment" =>
            \A i \in DOMAIN req :
                ~ValidName(req[i]) =>
                    /\ req[i] \notin Range(out.ping.groups)
                    /\ \E j \in DOMAIN out.log :
                           /\ IsPm(out.log[j])
                           /\ out.log[j].who = op.author
                           /\ req[i] \in Range(out.log[j].arg)

----------------------------------------------------------------------------
\* C11: the cache never holds more than its capacity of 10,000 identifiers,
\* and eviction is first in, first out: when the identifiers 1..n have been
\* recorded in order, the cache holds exactly the last min(n, 10000) of
\* them, in order, so that after 10,001 the first is absent and the other
\* 10,000 are present.
C11_CacheIsBoundedFifo ==
    /\ Len(parsed) <= PARSED_MAXLEN
    /\ LET n == op.id
           k == IF n < PARSED_MAXLEN THEN n ELSE PARSED_MAXLEN
       IN  parsed = [i \in 1..k |-> n - k + i]

\* an identifier has been recorded into a full cache: the oldest is gone
\* and the newest is last
C11_FirstEvicted ==
    /\ op.kind = "comment"
    /\ op.id > PARSED_MAXLEN
    /\ Len(parsed) = PARSED_MAXLEN
    /\ parsed[1] = op.id - PARSED_MAXLEN + 1
    /\ parsed[PARSED_MAXLEN] = op.id

----------------------------------------------------------------------------
\* C12: a comment whose identifier is in the cache when the stream delivers
\* it is not handled: the step posts, sends, reads and writes nothing and
\* leaves the cache as it was; and a comment that is handled has its
\* identifier in the cache afterwards.  So a comment is processed at most
\* once while its identifier remains in the cache.
CommentKinds ==
    { "comment", "comment skipped", "legacy comment", "legacy comment skipped" }

C12_SeenCommentNotHandled ==
    [][ /\ (op'.kind \in CommentKinds /\ op'.id \in Range(parsed)) =>
            /\ out'.log = <<>>
            /\ out'.tokens = <<>>
            /\ ~out'.ping.called
            /\ out'.exc = "none"
            /\ UNCHANGED <<parsed, wikiGroups, wikiConfig, pkl>>
        /\ (op'.kind \in {"comment", "legacy comment"}) =>
            op'.id \in Range(parsed')
      ]_vars

\* the stream has delivered again the comment that asked for a ping, and it
\* was passed over
C12_Redelivered ==
    /\ op.kind \in {"comment skipped", "legacy comment skipped"}
    /\ op.id = "c1"
    /\ "c1" \in Range(parsed)
    /\ running
    /\ out.log = <<>>

----------------------------------------------------------------------------
StartKinds == {"start", "legacy start"}
ExitKinds == {"exit", "legacy exit"}

\* C13: a start that follows an exit (load after save) gives the cache the
\* process had when it saved: the same identifiers in the same order, in a
\* deque of the same capacity, so that later appends evict the same
\* identifiers.
C13_SaveLoadRoundTrip ==
    [][ (op.kind \in ExitKinds /\ op'.kind \in StartKinds) =>
            /\ out'.exc = "none"
            /\ running'
            /\ parsed' = parsed
            /\ pkl.kind = "deque"
            /\ pkl.maxlen = PARSED_MAXLEN
      ]_vars

\* a restarted process holds two identifiers that only a save can have
\* written
C13_Reloaded ==
    /\ op.kind \in StartKinds
    /\ running
    /\ Len(parsed) >= 2
    /\ pkl.kind = "deque"
    /\ pkl.maxlen = PARSED_MAXLEN
    /\ pkl.items = parsed

\* C14: the handler of the termination signal writes the cache to the file
\* and then ends the process: after it the file holds exactly the
\* identifiers the process held, in order, and the process has not ended in
\* a step that left the file unwritten.
C14_ExitSavesCache ==
    [][ (op'.kind \in ExitKinds) =>
            /\ running
            /\ ~running'
            /\ pkl'.kind = "deque"
            /\ pkl'.items = parsed
            /\ pkl'.maxlen = PARSED_MAXLEN
      ]_vars

\* the signal has ended a process that had recorded comments the file did
\* not hold
C14_SavedOnSignal ==
    /\ op.kind \in ExitKinds
    /\ ~running
    /\ Len(parsed) >= 2
    /\ pkl.items = parsed

\* C15: the start never fails on the file: with no file, an empty file or a
\* file that is no readable cache, the process starts with an empty cache.
C15_LoadNeverFails ==
    (op.kind \in StartKinds /\ pkl.kind \in {"absent", "empty", "corrupt", "list"})
        => /\ out.exc = "none"
           /\ running
           /\ parsed = <<>>

----------------------------------------------------------------------------
\* the groups of a request the requester may ping: in the registry, and the
\* requester a member or a moderator, or the group public
Authorized(author, groups) ==
    { g \in Range(groups) :
        g \in DOMAIN wikiGroups /\ ~Forbidden(author, g) }

IsNotification(e) == e.ev = "pm" /\ e.kind = "You've been pinged"

IsErrorReply(e) == e.ev = "pm" /\ e.kind = "Invalid Group(s)"

\* C16: a ping with an authorized group attempts a notification to exactly
\* the members of the authorized groups, compared without regard to case,
\* except the requester, and to none of them twice.
C16_NotifiesUnionOnce ==
    LET auth == Authorized(op.author, op.groups)
        expected == { Lower(u) : u \in UNION { wikiGroups[g] : g \in auth } }
                        \ {Lower(op.author)}
        sent == Events(out.log, IsNotification)
    IN  (op.kind = "ping" /\ auth # {}) =>
            /\ { Lower(out.log[i].who) : i \in sent } = expected
            /\ \A i, j \in sent :
                   Lower(out.log[i].who) = Lower(out.log[j].who) => i = j

\* C17: a ping none of whose groups is authorized sends the requester
\* exactly one error message, and nothing else happens: no reply is
\* posted, no member is notified and no page is written.
C17_NoneAuthorizedOneError ==
    ( /\ op.kind = "ping"
      /\ op.groups # <<>>
      /\ Authorized(op.author, op.groups) = {} ) =>
        /\ Cardinality(Events(out.log, IsErrorReply)) = 1
        /\ \A i \in DOMAIN out.log :
               /\ out.log[i].ev \notin {"reply", "edit", "write"}
               /\ IsPm(out.log[i]) =>
                      IsErrorReply(out.log[i]) /\ out.log[i].who = op.author

\* C18: a ping with an authorized group and another group that is missing
\* or forbidden does both: the reply is posted and the members of the
\* authorized groups are notified, and the requester is sent an error
\* message.
C18_PartialSuccessReportsBoth ==
    LET auth == Authorized(op.author, op.groups)
    IN  ( /\ op.kind = "ping"
          /\ auth # {}
          /\ Range(op.groups) \ auth # {} ) =>
            /\ \E i \in DOMAIN out.log : out.log[i].ev = "reply"
            /\ \E i \in DOMAIN out.log :
                   IsErrorReply(out.log[i]) /\ out.log[i].who = op.author

\* the members ping_users is to notify: the users but the requester
Recipients ==
    { i \in DOMAIN op.users : Lower(op.users[i]) # Lower(op.author) }

Failed(i) == op.fails[op.users[i]] # "ok"

\* C19: when ping_users notifies a list in which the delivery to one member
\* fails, every later member of the list still gets an attempt and the
\* reply is edited to its final form.
C19_FailureDoesNotAbortLoop ==
    ( /\ op.kind = "ping_users"
      /\ op.groups # <<>>
      /\ op.error_message = <<>>
      /\ \E i \in Recipients : Failed(i) ) =>
        /\ \A i, j \in Recipients :
               (Failed(i) /\ i < j) =>
                   \E k \in Events(out.log, IsNotification) :
                       out.log[k].who = op.users[j]
        /\ \E k \in DOMAIN out.log : out.log[k].ev = "edit"

----------------------------------------------------------------------------
\* C21: when the delivery of ping_users to a member fails because the
\* account is deleted or invalid, the registry page afterwards lists that
\* account in no section, whatever the case of its letters, and a write of
\* the page names the removed user.
C21_DeletedAccountIsRemoved ==
    ( /\ op.kind = "ping_users"
      /\ op.groups # <<>>
      /\ op.error_message = <<>> ) =>
        \A i \in Recipients :
            op.fails[op.users[i]] \in {"USER_DOESNT_EXIST", "INVALID_USER"} =>
                /\ \A g \in DOMAIN wikiGroups :
                       \A u \in wikiGroups[g] :
                           Lower(u) # Lower(op.users[i])
                /\ \E k \in DOMAIN out.log :
                       /\ IsWrite(out.log[k])
                       /\ out.log[k].page = "groups"
                       /\ out.log[k].who = op.users[i]

----------------------------------------------------------------------------
\* what is wrong with a message o, if anything, given the pages it meets:
\* no command at all, a command of neither table, a moderator-only command
\* of a non-moderator, or a moderator's command on a group that is not
\* there (or, for creategroup, that is there already, or whose name has a
\* forbidden character)
MessageInputError(o, reg, cfg) ==
    LET command == MsgCommand(o.body)
        name == Upper(MsgData(o.body))
        modonly == cfg["mod_commands"]
    IN  /\ o.kind = "message"
        /\ o.author # NoAuthor
        /\ \/ command = <<>>
           \/ command \notin cfg["commands"] \cup modonly
           \/ command \in modonly /\ o.author \notin Moderators
           \/ /\ o.author \in Moderators
              /\ command \in {C_protectgroup, C_unprotectgroup, C_deletegroup}
              /\ name \notin DOMAIN reg
           \/ /\ o.author \in Moderators
              /\ command = C_creategroup
              /\ ~ValidName(name) \/ name \in DOMAIN reg

\* a comment that asks for a group with a forbidden character in its name,
\* or for a group that is not in the registry
CommentInputError(o, reg) ==
    LET req == HonouredGroups(o.body)
    IN  /\ o.kind = "comment"
        /\ \E i \in DOMAIN req :
               ~ValidName(req[i]) \/ req[i] \notin DOMAIN reg

\* C22: every input error of a user, in a comment or in a command, gets a
\* private reply to that user, and neither the handler nor the polling
\* loop ends with an exception.
C22_InputErrorsAreReplied ==
    [][ ( \/ MessageInputError(op', wikiGroups, wikiConfig)
          \/ CommentInputError(op', wikiGroups) ) =>
            /\ out'.exc = "none"
            /\ running'
            /\ \E i \in DOMAIN out'.log :
                   IsPm(out'.log[i]) /\ out'.log[i].who = op'.author
      ]_vars

----------------------------------------------------------------------------
\* C23: a creategroup message of a moderator whose name (in upper case) has
\* only allowed characters and is no section of the registry page leaves
\* the page with that section, listing exactly the creator, and every
\* other section as it was; with a name that is a section already, or that
\* has a forbidden character, the page is not written and does not change.
C23_CreateGroup ==
    [][ ( /\ op'.kind = "message"
          /\ MsgCommand(op'.body) = C_creategroup
          /\ op'.author \in Moderators ) =>
            LET name == Upper(MsgData(op'.body))
            IN  IF ValidName(name) /\ name \notin DOMAIN wikiGroups
                THEN wikiGroups' =
                         [ x \in DOMAIN wikiGroups \cup {name} |->
                             IF x = name THEN {op'.author}
                             ELSE wikiGroups[x] ]
                ELSE /\ wikiGroups' = wikiGroups
                     /\ Events(out'.log, IsWrite) = {}
      ]_vars

----------------------------------------------------------------------------
----------------------------------------------------------------------------
\* C25: each of the four visibility commands of a moderator on an existing
\* group sets its flag in the config page and nothing else: makepublicgroup
\* puts the group in the public section and makeprivategroup takes it out,
\* protectgroup puts it in the protected section and unprotectgroup takes
\* it out; the other section and the registry page are as they were.
C25_VisibilityCommands ==
    [][ ( /\ op'.kind = "message"
          /\ op'.author \in Moderators
          /\ MsgCommand(op'.body) \in
                 {C_makepublicgroup, C_makeprivategroup,
                  C_protectgroup, C_unprotectgroup}
          /\ Upper(MsgData(op'.body)) \in DOMAIN wikiGroups ) =>
            LET command == MsgCommand(op'.body)
                g == MsgData(op'.body)
                public == wikiConfig["public"]
                protected == wikiConfig["protected"]
            IN  /\ out'.exc = "none"
                /\ wikiGroups' = wikiGroups
                /\ wikiConfig'["public"] =
                       CASE command = C_makepublicgroup -> public \cup {g}
                         [] command = C_makeprivategroup -> public \ {g}
                         [] OTHER -> public
                /\ wikiConfig'["protected"] =
                       CASE command = C_protectgroup -> protected \cup {g}
                         [] command = C_unprotectgroup -> protected \ {g}
                         [] OTHER -> protected
      ]_vars

----------------------------------------------------------------------------
\* the registry page reg without the account who in the sections of S
Without(reg, who, S) ==
    [ g \in DOMAIN reg |->
        IF g \in S THEN { u \in reg[g] : Lower(u) # Lower(who) } ELSE reg[g] ]

\* C26: an unsubscribe message without group names leaves the sender in no
\* section of the registry page; with names, separated by blanks, it takes
\* the sender out of the named sections and leaves the others as they
\* were; no other account is taken out of any section.
C26_Unsubscribe ==
    [][ ( /\ op'.kind = "message"
          /\ op'.author # NoAuthor
          /\ MsgCommand(op'.body) = C_unsubscribe ) =>
            LET named == Range(SplitWs(Upper(MsgData(op'.body))))
                S == IF named = {} THEN DOMAIN wikiGroups ELSE named
            IN  wikiGroups' = Without(wikiGroups, op'.author, S)
      ]_vars

\* C27: a removefromgroup message that names sections of the registry page
\* takes the sender out of exactly those, and nobody else; when the sender
\* is in none of them the page is not written and does not change, and the
\* sender is sent an error reply.
C27_RemoveFromGroup ==
    [][ ( /\ op'.kind = "message"
          /\ op'.author # NoAuthor
          /\ MsgCommand(op'.body) = C_removefromgroup
          /\ \A g \in NamedGroups(op'.body) : Upper(g) \in DOMAIN wikiGroups ) =>
            LET S == { Upper(g) : g \in NamedGroups(op'.body) }
                member == \E g \in S : IsMember(op'.author, g)
            IN  /\ wikiGroups' = Without(wikiGroups, op'.author, S)
                /\ ~member =>
                       /\ Events(out'.log, IsWrite) = {}
                       /\ \E i \in DOMAIN out'.log :
                              /\ IsPm(out'.log[i])
                              /\ out'.log[i].who = op'.author
      ]_vars

\* an operation that fetched a page the parser refuses
ReadMalformed(o) ==
    \E i \in DOMAIN o.log :
        /\ o.log[i].ev = "read"
        /\ \/ o.log[i].page = "config" /\ ~ConfigParses(wikiConfig)
           \/ o.log[i].page = "groups" /\ ~RegistryParses(wikiGroups)

\* C28: a command or a ping that fetches a registry or config page the
\* parser refuses gives up that operation only: the polling loop is still
\* running afterwards, and the cache is what it was, within its capacity.
C28_MalformedPageAbortsOnlyTheCycle ==
    [][ ( /\ op'.kind \in {"message", "ping"}
          /\ ReadMalformed(out') ) =>
            /\ running'
            /\ parsed' = parsed
            /\ Len(parsed') <= PARSED_MAXLEN
      ]_vars

\* the events of a log before the first read of a page, or all of them
BeforeRead(log, page) ==
    LET reads == { i \in DOMAIN log :
                     log[i].ev = "read" /\ log[i].page = page }
    IN  IF reads = {} THEN DOMAIN log
        ELSE { i \in DOMAIN log : \A j \in reads : i < j }

\* C29: a command and a ping fetch the config page first of all, and a ping
\* and every command closure that consults the registry fetch the registry
\* page next, before any reply, message or write;
\* self.config afterwards is the page as fetched; and what the operation
\* does is the same whatever self.config held before it, so a page edited
\* by hand since the previous operation is the one that decides.
C29_DecisionsUseFreshPages ==
    [][ /\ ( /\ op'.kind = "message"
             /\ op'.author # NoAuthor
             /\ MsgCommand(op'.body) # <<>> ) =>
               /\ out'.log # <<>>
               /\ out'.log[1] = EvRead("config")
               /\ ( /\ out'.handler # <<>>
                     /\ ReadsGroups(MsgCommand(op'.body), MsgData(op'.body)) ) =>
                      BeforeRead(out'.log, "groups") \subseteq {1}
               /\ ConfigParses(wikiConfig) => config' = wikiConfig'
               /\ \A c \in ConfigPages :
                      out' = Out(LET st == handle_command(
                                     [author |-> op'.author, body |-> op'.body],
                                     Ctx(wikiGroups, wikiConfig, c, parsed))
                                 IN  IF st.exc = "none"
                                     THEN Emit(st, EvMarkRead) ELSE st)
        /\ op'.kind = "ping" =>
               /\ out'.log # <<>>
               /\ out'.log[1] = EvRead("config")
               /\ BeforeRead(out'.log, "groups") \subseteq {1}
               /\ ConfigParses(wikiConfig) => config' = wikiConfig'
               /\ \A c \in ConfigPages :
                      out' = Out(handle_ping(op'.groups,
                                     [id |-> op'.id, author |-> op'.author],
                                     Ctx(wikiGroups, wikiConfig, c, parsed)))
      ]_vars

\* al, taken off FO by an edit of the registry page that also listed FO as
\* protected on the config page, asks to join FO and is not added
C29_EditedFlagDecides ==
    /\ op.kind = "message"
    /\ op.author = AL
    /\ op.body = Text(<<C_addtogroup, Lower(FO)>>)
    /\ FO \in DOMAIN wikiGroups
    /\ AL \notin wikiGroups[FO]
    /\ Lower(FO) \in config["protected"]
    /\ out.exc = "none"
    /\ Events(out.log, IsWrite) = {}

\* C30 as stated: after the loop has taken a comment from the stream, its
\* identifier is in self.parsed, whether the comment was handled or passed
\* over.
C30_EveryExaminedCommentIsCached ==
    op.kind \in {"comment", "comment skipped"} => op.id \in Range(parsed)

\* C30: every comment handed to handle_comment (one that is not removed,
\* not older than the start of the process and not in the cache) is the
\* last identifier of self.parsed afterwards, with or without a trigger
\* and whatever becomes of its groups; a comment passed over by listen
\* leaves self.parsed as it was.
C30_HandledCommentIsCached ==
    [][ /\ op'.kind = "comment" =>
               /\ parsed' # <<>>
               /\ parsed'[Len(parsed')] = op'.id
        /\ op'.kind = "comment skipped" => parsed' = parsed
      ]_vars

\* a comment with a trigger, recorded although its handling then failed
C30_TriggerRecorded ==
    /\ op.kind = "comment"
    /\ out.tokens # <<>>
    /\ out.exc = "NameError"
    /\ parsed = <<op.id>>

\* C31: a command writes to the wiki at most once; when it changes the
\* registry page or the config page it writes exactly once, with a reason
\* that is not empty, and when it changes neither it does not write.
C31_OneWritePerCommand ==
    [][ ( /\ op'.kind = "message"
          /\ op'.author # NoAuthor ) =>
            LET writes == Events(out'.log, IsWrite)
                changed == \/ wikiGroups' # wikiGroups
                           \/ wikiConfig' # wikiConfig
            IN  /\ Cardinality(writes) <= 1
                /\ \A i \in writes : out'.log[i].kind # ""
                /\ changed <=> writes # {}
      ]_vars

C33_ReplyThenNotifyThenEdit ==
    ( /\ op.kind = "ping_users"
      /\ op.groups # <<>>
      /\ op.error_message = <<>> ) =>
        /\ out.exc = "none"
        /\ \E r, e \in DOMAIN out.log :
               /\ out.log[r].ev = "reply"
               /\ out.log[e].ev = "edit"
               /\ r < e
               /\ \A k \in Events(out.log, IsNotification) : r < k /\ k < e

\* C34: every name listed under public or protected on the config page is,
\* in upper case, a section of the registry page.
C34_FlagsNameExistingGroups ==
    \A name \in wikiConfig["public"] \cup wikiConfig["protected"] :
        Upper(name) \in DOMAIN wikiGroups

HandledKinds == {"comment", "legacy comment"}

SkippedKinds == {"comment skipped", "legacy comment skipped"}

\* C35: a comment is handed to the handler only when its identifier is not
\* in self.parsed, and it is in self.parsed afterwards however far the
\* handling got, an exception at its first request included; a comment
\* whose identifier is in self.parsed is passed over, with no request to
\* reddit; and no identifier leaves a self.parsed below its capacity.
C35_HandledAtMostOnce ==
    [][ /\ op'.kind \in HandledKinds =>
               /\ op'.id \notin Range(parsed)
               /\ op'.id \in Range(parsed')
        /\ op'.kind \in SkippedKinds =>
               /\ op'.id \in Range(parsed)
               /\ out'.log = <<>>
               /\ parsed' = parsed
        /\ Len(parsed) < PARSED_MAXLEN =>
               Range(parsed) \subseteq Range(parsed')
      ]_vars

\* a ping interrupted after a notification and before the edit of the
\* reply: the comment is recorded and the loop goes on
C35_InterruptedPingRecorded ==
    /\ op.kind = "legacy comment"
    /\ out.exc = "RequestException"
    /\ running
    /\ op.id \in Range(parsed)
    /\ \E k \in DOMAIN out.log :
           IsPm(out.log[k]) /\ out.log[k].who # op.author
    /\ \A k \in DOMAIN out.log : out.log[k].ev # "edit"

\* the recipients whose delivery fails for a deleted or invalid account
Gone ==
    { Lower(op.users[i]) :
        i \in { j \in Recipients :
                   op.fails[op.users[j]] \in {"USER_DOESNT_EXIST", "INVALID_USER"} } }

====
